---- MODULE Spec2Model ----
(***************************************************************************)
(* Model of django_comments_xtd/templatetags/comments_xtd.py: the three    *)
(* template tags get_xtdcomment_count, render_last_xtdcomments and         *)
(* get_last_xtdcomments, their parsers and the render methods of their     *)
(* nodes.                                                                  *)
(*                                                                         *)
(* Python strings are sequences of characters, so that str.split and int() *)
(* are computed and not assumed.  A printable ASCII character is the       *)
(* one-character string of itself; the tab, line feed, form feed and       *)
(* carriage return are "\t", "\n", "\f" and "\r"; any other character is   *)
(* the string "U+" followed by its code point in hexadecimal.  A Python    *)
(* call that may raise is an operator whose value is a record with a       *)
(* field "kind": "ok" (with "value") or the name of the exception class    *)
(* that leaves the call.  The output of a template is a sequence of        *)
(* rendered chunks; the empty string is the empty sequence and ''.join is  *)
(* concatenation.                                                          *)
(***************************************************************************)
EXTENDS Integers, Sequences, FiniteSets, TLC

VARIABLES
    db,         \* the stored XtdComment rows
    templates,  \* the template paths the loader can find
    contents,   \* token.contents of the tag handed to the parser (NoTag before)
    result,     \* what the tag's parser ended in
    node,       \* the Node the parser returned (NoNode when none)
    given,      \* the context handed to the last render, as it was before the call
    context,    \* that context after the render: a stack of dicts, the last on top
    out,        \* what the last render returned (or raised)
    last,       \* the last operation performed
    dirty,      \* history: a comment was added or deleted since the last parse/render
    rerenders,  \* history: renders that followed a change of db (saturating)
    restores    \* the installed loader.render_to_string pops what it pushed

vars ==
    <<db, templates, contents, result, node, given, context, out, last, dirty,
      rerenders,
      restores>>

(***************************************************************************)
(* Bounds of the model.                                                    *)
(***************************************************************************)
\* Comments carry distinct ordering timestamps 1..MaxTs.
MaxTs == 3

(***************************************************************************)
(* Python strings.                                                         *)
(***************************************************************************)
Range(s) == {s[i] : i \in DOMAIN s}

RECURSIVE Flatten(_)
Flatten(ss) == IF ss = <<>> THEN <<>> ELSE Head(ss) \o Flatten(Tail(ss))

\* sep.join(parts)
RECURSIVE str_join(_, _)
str_join(sep, parts) ==
    IF parts = <<>> THEN <<>>
    ELSE IF Len(parts) = 1 THEN parts[1]
    ELSE parts[1] \o sep \o str_join(sep, Tail(parts))

\* s.split(sep) and s.split(): the pieces of s between the characters of
\* seps, the empty pieces kept.
RECURSIVE split_from(_, _, _, _)
split_from(s, seps, i, cur) ==
    IF i > Len(s) THEN <<cur>>
    ELSE IF s[i] \in seps THEN <<cur>> \o split_from(s, seps, i + 1, <<>>)
    ELSE split_from(s, seps, i + 1, Append(cur, s[i]))

\* s.split(sep) for a one-character sep: empty pieces are kept.
str_split_sep(s, sep) == split_from(s, {sep}, 1, <<>>)

\* The characters str.isspace() holds of.
Whitespace ==
    {"\t", "\n", "U+000B", "\f", "\r", "U+001C", "U+001D", "U+001E",
     "U+001F", " ", "U+0085", "U+00A0", "U+1680", "U+2000", "U+2001",
     "U+2002", "U+2003", "U+2004", "U+2005", "U+2006", "U+2007", "U+2008",
     "U+2009", "U+200A", "U+2028", "U+2029", "U+202F", "U+205F", "U+3000"}

\* s.split(): splits on runs of whitespace, empty pieces are dropped.
str_split(s) == SelectSeq(split_from(s, Whitespace, 1, <<>>), LAMBDA p : p # <<>>)

\* The decimal digits of Unicode (category Nd), one row per script, each row
\* from the digit zero to the digit nine.
DecimalDigits ==
    <<
      <<"0", "1", "2", "3", "4", "5", "6", "7", "8", "9">>,
      <<"U+0660", "U+0661", "U+0662", "U+0663", "U+0664", "U+0665", "U+0666", "U+0667", "U+0668", "U+0669">>,
      <<"U+06F0", "U+06F1", "U+06F2", "U+06F3", "U+06F4", "U+06F5", "U+06F6", "U+06F7", "U+06F8", "U+06F9">>,
      <<"U+07C0", "U+07C1", "U+07C2", "U+07C3", "U+07C4", "U+07C5", "U+07C6", "U+07C7", "U+07C8", "U+07C9">>,
      <<"U+0966", "U+0967", "U+0968", "U+0969", "U+096A", "U+096B", "U+096C", "U+096D", "U+096E", "U+096F">>,
      <<"U+09E6", "U+09E7", "U+09E8", "U+09E9", "U+09EA", "U+09EB", "U+09EC", "U+09ED", "U+09EE", "U+09EF">>,
      <<"U+0A66", "U+0A67", "U+0A68", "U+0A69", "U+0A6A", "U+0A6B", "U+0A6C", "U+0A6D", "U+0A6E", "U+0A6F">>,
      <<"U+0AE6", "U+0AE7", "U+0AE8", "U+0AE9", "U+0AEA", "U+0AEB", "U+0AEC", "U+0AED", "U+0AEE", "U+0AEF">>,
      <<"U+0B66", "U+0B67", "U+0B68", "U+0B69", "U+0B6A", "U+0B6B", "U+0B6C", "U+0B6D", "U+0B6E", "U+0B6F">>,
      <<"U+0BE6", "U+0BE7", "U+0BE8", "U+0BE9", "U+0BEA", "U+0BEB", "U+0BEC", "U+0BED", "U+0BEE", "U+0BEF">>,
      <<"U+0C66", "U+0C67", "U+0C68", "U+0C69", "U+0C6A", "U+0C6B", "U+0C6C", "U+0C6D", "U+0C6E", "U+0C6F">>,
      <<"U+0CE6", "U+0CE7", "U+0CE8", "U+0CE9", "U+0CEA", "U+0CEB", "U+0CEC", "U+0CED", "U+0CEE", "U+0CEF">>,
      <<"U+0D66", "U+0D67", "U+0D68", "U+0D69", "U+0D6A", "U+0D6B", "U+0D6C", "U+0D6D", "U+0D6E", "U+0D6F">>,
      <<"U+0DE6", "U+0DE7", "U+0DE8", "U+0DE9", "U+0DEA", "U+0DEB", "U+0DEC", "U+0DED", "U+0DEE", "U+0DEF">>,
      <<"U+0E50", "U+0E51", "U+0E52", "U+0E53", "U+0E54", "U+0E55", "U+0E56", "U+0E57", "U+0E58", "U+0E59">>,
      <<"U+0ED0", "U+0ED1", "U+0ED2", "U+0ED3", "U+0ED4", "U+0ED5", "U+0ED6", "U+0ED7", "U+0ED8", "U+0ED9">>,
      <<"U+0F20", "U+0F21", "U+0F22", "U+0F23", "U+0F24", "U+0F25", "U+0F26", "U+0F27", "U+0F28", "U+0F29">>,
      <<"U+1040", "U+1041", "U+1042", "U+1043", "U+1044", "U+1045", "U+1046", "U+1047", "U+1048", "U+1049">>,
      <<"U+1090", "U+1091", "U+1092", "U+1093", "U+1094", "U+1095", "U+1096", "U+1097", "U+1098", "U+1099">>,
      <<"U+17E0", "U+17E1", "U+17E2", "U+17E3", "U+17E4", "U+17E5", "U+17E6", "U+17E7", "U+17E8", "U+17E9">>,
      <<"U+1810", "U+1811", "U+1812", "U+1813", "U+1814", "U+1815", "U+1816", "U+1817", "U+1818", "U+1819">>,
      <<"U+1946", "U+1947", "U+1948", "U+1949", "U+194A", "U+194B", "U+194C", "U+194D", "U+194E", "U+194F">>,
      <<"U+19D0", "U+19D1", "U+19D2", "U+19D3", "U+19D4", "U+19D5", "U+19D6", "U+19D7", "U+19D8", "U+19D9">>,
      <<"U+1A80", "U+1A81", "U+1A82", "U+1A83", "U+1A84", "U+1A85", "U+1A86", "U+1A87", "U+1A88", "U+1A89">>,
      <<"U+1A90", "U+1A91", "U+1A92", "U+1A93", "U+1A94", "U+1A95", "U+1A96", "U+1A97", "U+1A98", "U+1A99">>,
      <<"U+1B50", "U+1B51", "U+1B52", "U+1B53", "U+1B54", "U+1B55", "U+1B56", "U+1B57", "U+1B58", "U+1B59">>,
      <<"U+1BB0", "U+1BB1", "U+1BB2", "U+1BB3", "U+1BB4", "U+1BB5", "U+1BB6", "U+1BB7", "U+1BB8", "U+1BB9">>,
      <<"U+1C40", "U+1C41", "U+1C42", "U+1C43", "U+1C44", "U+1C45", "U+1C46", "U+1C47", "U+1C48", "U+1C49">>,
      <<"U+1C50", "U+1C51", "U+1C52", "U+1C53", "U+1C54", "U+1C55", "U+1C56", "U+1C57", "U+1C58", "U+1C59">>,
      <<"U+A620", "U+A621", "U+A622", "U+A623", "U+A624", "U+A625", "U+A626", "U+A627", "U+A628", "U+A629">>,
      <<"U+A8D0", "U+A8D1", "U+A8D2", "U+A8D3", "U+A8D4", "U+A8D5", "U+A8D6", "U+A8D7", "U+A8D8", "U+A8D9">>,
      <<"U+A900", "U+A901", "U+A902", "U+A903", "U+A904", "U+A905", "U+A906", "U+A907", "U+A908", "U+A909">>,
      <<"U+A9D0", "U+A9D1", "U+A9D2", "U+A9D3", "U+A9D4", "U+A9D5", "U+A9D6", "U+A9D7", "U+A9D8", "U+A9D9">>,
      <<"U+A9F0", "U+A9F1", "U+A9F2", "U+A9F3", "U+A9F4", "U+A9F5", "U+A9F6", "U+A9F7", "U+A9F8", "U+A9F9">>,
      <<"U+AA50", "U+AA51", "U+AA52", "U+AA53", "U+AA54", "U+AA55", "U+AA56", "U+AA57", "U+AA58", "U+AA59">>,
      <<"U+ABF0", "U+ABF1", "U+ABF2", "U+ABF3", "U+ABF4", "U+ABF5", "U+ABF6", "U+ABF7", "U+ABF8", "U+ABF9">>,
      <<"U+FF10", "U+FF11", "U+FF12", "U+FF13", "U+FF14", "U+FF15", "U+FF16", "U+FF17", "U+FF18", "U+FF19">>,
      <<"U+104A0", "U+104A1", "U+104A2", "U+104A3", "U+104A4", "U+104A5", "U+104A6", "U+104A7", "U+104A8", "U+104A9">>,
      <<"U+10D30", "U+10D31", "U+10D32", "U+10D33", "U+10D34", "U+10D35", "U+10D36", "U+10D37", "U+10D38", "U+10D39">>,
      <<"U+11066", "U+11067", "U+11068", "U+11069", "U+1106A", "U+1106B", "U+1106C", "U+1106D", "U+1106E", "U+1106F">>,
      <<"U+110F0", "U+110F1", "U+110F2", "U+110F3", "U+110F4", "U+110F5", "U+110F6", "U+110F7", "U+110F8", "U+110F9">>,
      <<"U+11136", "U+11137", "U+11138", "U+11139", "U+1113A", "U+1113B", "U+1113C", "U+1113D", "U+1113E", "U+1113F">>,
      <<"U+111D0", "U+111D1", "U+111D2", "U+111D3", "U+111D4", "U+111D5", "U+111D6", "U+111D7", "U+111D8", "U+111D9">>,
      <<"U+112F0", "U+112F1", "U+112F2", "U+112F3", "U+112F4", "U+112F5", "U+112F6", "U+112F7", "U+112F8", "U+112F9">>,
      <<"U+11450", "U+11451", "U+11452", "U+11453", "U+11454", "U+11455", "U+11456", "U+11457", "U+11458", "U+11459">>,
      <<"U+114D0", "U+114D1", "U+114D2", "U+114D3", "U+114D4", "U+114D5", "U+114D6", "U+114D7", "U+114D8", "U+114D9">>,
      <<"U+11650", "U+11651", "U+11652", "U+11653", "U+11654", "U+11655", "U+11656", "U+11657", "U+11658", "U+11659">>,
      <<"U+116C0", "U+116C1", "U+116C2", "U+116C3", "U+116C4", "U+116C5", "U+116C6", "U+116C7", "U+116C8", "U+116C9">>,
      <<"U+11730", "U+11731", "U+11732", "U+11733", "U+11734", "U+11735", "U+11736", "U+11737", "U+11738", "U+11739">>,
      <<"U+118E0", "U+118E1", "U+118E2", "U+118E3", "U+118E4", "U+118E5", "U+118E6", "U+118E7", "U+118E8", "U+118E9">>,
      <<"U+11950", "U+11951", "U+11952", "U+11953", "U+11954", "U+11955", "U+11956", "U+11957", "U+11958", "U+11959">>,
      <<"U+11C50", "U+11C51", "U+11C52", "U+11C53", "U+11C54", "U+11C55", "U+11C56", "U+11C57", "U+11C58", "U+11C59">>,
      <<"U+11D50", "U+11D51", "U+11D52", "U+11D53", "U+11D54", "U+11D55", "U+11D56", "U+11D57", "U+11D58", "U+11D59">>,
      <<"U+11DA0", "U+11DA1", "U+11DA2", "U+11DA3", "U+11DA4", "U+11DA5", "U+11DA6", "U+11DA7", "U+11DA8", "U+11DA9">>,
      <<"U+16A60", "U+16A61", "U+16A62", "U+16A63", "U+16A64", "U+16A65", "U+16A66", "U+16A67", "U+16A68", "U+16A69">>,
      <<"U+16AC0", "U+16AC1", "U+16AC2", "U+16AC3", "U+16AC4", "U+16AC5", "U+16AC6", "U+16AC7", "U+16AC8", "U+16AC9">>,
      <<"U+16B50", "U+16B51", "U+16B52", "U+16B53", "U+16B54", "U+16B55", "U+16B56", "U+16B57", "U+16B58", "U+16B59">>,
      <<"U+1D7CE", "U+1D7CF", "U+1D7D0", "U+1D7D1", "U+1D7D2", "U+1D7D3", "U+1D7D4", "U+1D7D5", "U+1D7D6", "U+1D7D7">>,
      <<"U+1D7D8", "U+1D7D9", "U+1D7DA", "U+1D7DB", "U+1D7DC", "U+1D7DD", "U+1D7DE", "U+1D7DF", "U+1D7E0", "U+1D7E1">>,
      <<"U+1D7E2", "U+1D7E3", "U+1D7E4", "U+1D7E5", "U+1D7E6", "U+1D7E7", "U+1D7E8", "U+1D7E9", "U+1D7EA", "U+1D7EB">>,
      <<"U+1D7EC", "U+1D7ED", "U+1D7EE", "U+1D7EF", "U+1D7F0", "U+1D7F1", "U+1D7F2", "U+1D7F3", "U+1D7F4", "U+1D7F5">>,
      <<"U+1D7F6", "U+1D7F7", "U+1D7F8", "U+1D7F9", "U+1D7FA", "U+1D7FB", "U+1D7FC", "U+1D7FD", "U+1D7FE", "U+1D7FF">>,
      <<"U+1E140", "U+1E141", "U+1E142", "U+1E143", "U+1E144", "U+1E145", "U+1E146", "U+1E147", "U+1E148", "U+1E149">>,
      <<"U+1E2F0", "U+1E2F1", "U+1E2F2", "U+1E2F3", "U+1E2F4", "U+1E2F5", "U+1E2F6", "U+1E2F7", "U+1E2F8", "U+1E2F9">>,
      <<"U+1E950", "U+1E951", "U+1E952", "U+1E953", "U+1E954", "U+1E955", "U+1E956", "U+1E957", "U+1E958", "U+1E959">>,
      <<"U+1FBF0", "U+1FBF1", "U+1FBF2", "U+1FBF3", "U+1FBF4", "U+1FBF5", "U+1FBF6", "U+1FBF7", "U+1FBF8", "U+1FBF9">>
    >>

IsDigit(c) == \E r \in DOMAIN DecimalDigits : \E i \in 1 .. 10 : DecimalDigits[r][i] = c

DigitValue(c) ==
    LET r == CHOOSE k \in DOMAIN DecimalDigits : \E i \in 1 .. 10 : DecimalDigits[k][i] = c
    IN (CHOOSE i \in 1 .. 10 : DecimalDigits[r][i] = c) - 1

\* The value of a sequence of decimal digits: a Python int, which has no
\* width (the counts the tags of this model carry are far below 2^31).
RECURSIVE DigitsValue(_)
DigitsValue(ds) ==
    IF ds = <<>> THEN 0
    ELSE DigitsValue(SubSeq(ds, 1, Len(ds) - 1)) * 10 + DigitValue(ds[Len(ds)])

\* The whitespace int() skips at both ends of its argument: the separators
\* U+001C to U+001F are whitespace to str.split but not to int.
IntWhitespace(c) ==
    /\ c \in Whitespace
    /\ ~(c = "U+001C" \/ c = "U+001D" \/ c = "U+001E" \/ c = "U+001F")

RECURSIVE int_strip(_)
int_strip(s) ==
    IF s = <<>> THEN s
    ELSE IF IntWhitespace(s[1]) THEN int_strip(Tail(s))
    ELSE IF IntWhitespace(s[Len(s)]) THEN int_strip(SubSeq(s, 1, Len(s) - 1))
    ELSE s

\* A digit string of int(): decimal digits, with single underscores allowed
\* between two digits.
IntDigits(ds) ==
    /\ ds # <<>>
    /\ \A i \in DOMAIN ds :
          \/ IsDigit(ds[i])
          \/ /\ ds[i] = "_"
             /\ 1 < i
             /\ i < Len(ds)
             /\ IsDigit(ds[i - 1])
             /\ IsDigit(ds[i + 1])

\* sys.get_int_max_str_digits(): the longest digit string int() converts.
int_max_str_digits == 4300

\* int(s): whitespace at the ends is skipped; an optional sign and a digit
\* string of at most int_max_str_digits digits (underscores not counted,
\* leading zeros counted), ValueError otherwise.
int(s) ==
    LET t == int_strip(s)
        signed == t # <<>> /\ (t[1] = "-" \/ t[1] = "+")
        body == IF signed THEN Tail(t) ELSE t
        digits == SelectSeq(body, IsDigit)
        magnitude == DigitsValue(digits)
    IN IF IntDigits(body) /\ Len(digits) <= int_max_str_digits
       THEN [kind |-> "ok",
             value |-> IF signed /\ t[1] = "-" THEN 0 - magnitude ELSE magnitude]
       ELSE [kind |-> "ValueError"]

\* Python indexing from 0: seq[i], which raises IndexError when i >= len(seq).
HasIndex(seq, i) == i < Len(seq)

At(seq, i) == seq[i + 1]

\* seq[k:]
SliceFrom(seq, k) == SubSeq(seq, k + 1, Len(seq))

\* seq[:k] for k >= 0
SliceTo(seq, k) == SubSeq(seq, 1, IF k < Len(seq) THEN k ELSE Len(seq))

(***************************************************************************)
(* The words of the tag language.                                          *)
(***************************************************************************)
kw_as == <<"a", "s">>

kw_for == <<"f", "o", "r">>

key_comment == <<"c", "o", "m", "m", "e", "n", "t">>

\* The names the three tags are registered under.
tag_count ==
    <<"g", "e", "t", "_", "x", "t", "d", "c", "o", "m", "m", "e", "n", "t",
      "_", "c", "o", "u", "n", "t">>

tag_render ==
    <<"r", "e", "n", "d", "e", "r", "_", "l", "a", "s", "t", "_", "x", "t",
      "d", "c", "o", "m", "m", "e", "n", "t", "s">>

tag_get ==
    <<"g", "e", "t", "_", "l", "a", "s", "t", "_", "x", "t", "d", "c", "o",
      "m", "m", "e", "n", "t", "s">>

(***************************************************************************)
(* The content-type registry and the comments table.                       *)
(***************************************************************************)
app_blog == <<"b", "l", "o", "g">>

ct_story == [app_label |-> app_blog, model |-> <<"s", "t", "o", "r", "y">>]

ct_quote == [app_label |-> app_blog, model |-> <<"q", "u", "o", "t", "e">>]

\* The rows of the content-type registry.
ContentTypes == {ct_story, ct_quote}

\* ContentType.objects.get(app_label=app, model=model)
ContentType_get(app, model) ==
    IF [app_label |-> app, model |-> model] \in ContentTypes
    THEN [kind |-> "ok", value |-> [app_label |-> app, model |-> model]]
    ELSE [kind |-> "DoesNotExist"]

Timestamps == 1 .. MaxTs

\* An XtdComment row: its content type and its ordering timestamp.
Comments == [content_type : ContentTypes, submit_date : Timestamps]

\* The rows of set S, the most recent first.
RECURSIVE NewestFirst(_)
NewestFirst(S) ==
    IF S = {} THEN <<>>
    ELSE LET c == CHOOSE x \in S : \A y \in S : y.submit_date <= x.submit_date
         IN <<c>> \o NewestFirst(S \ {c})

\* XtdComment.objects.for_content_types(content_types): a lazy QuerySet.
for_content_types(content_types) ==
    [content_types |-> content_types, sliced |-> FALSE, high |-> 0,
     evaluated |-> FALSE, cache |-> <<>>]

\* The rows the database returns for the query of qs when it is run on rows S:
\* the comments of the content types, the most recent first, cut at the slice.
QuerySet_fetch(qs, S) ==
    LET rows == NewestFirst({c \in S : c.content_type \in Range(qs.content_types)})
    IN IF qs.sliced THEN SliceTo(rows, qs.high) ELSE rows

\* qs[:count]: a new lazy QuerySet; a negative bound fails Django's assertion.
QuerySet_slice(qs, count) ==
    IF count < 0 THEN [kind |-> "AssertionError"]
    ELSE [kind |-> "ok", value |-> [qs EXCEPT !.sliced = TRUE, !.high = count]]

\* Iterating qs: the first iteration runs the query and keeps the rows in the
\* QuerySet's result cache, later iterations read the cache.
QuerySet_iter(qs, S) ==
    IF qs.evaluated THEN qs
    ELSE [qs EXCEPT !.evaluated = TRUE, !.cache = QuerySet_fetch(qs, S)]

\* qs.count(): the length of the result cache when there is one, else a
\* COUNT query.
QuerySet_count(qs, S) ==
    IF qs.evaluated THEN Len(qs.cache) ELSE Len(QuerySet_fetch(qs, S))

(***************************************************************************)
(* The parsers.                                                            *)
(***************************************************************************)
\* The error messages the parsers build: the position of the argument and
\* the word the message says it must be.
msg_count_2nd == [position |-> 2, must_be |-> kw_for]

msg_count_4th == [position |-> 4, must_be |-> kw_for]

msg_render_3rd == [position |-> 3, must_be |-> kw_for]

msg_get_3rd == [position |-> 3, must_be |-> kw_as]

msg_get_5th == [position |-> 5, must_be |-> kw_for]

msg_integer == [position |-> 2, must_be |-> <<"i", "n", "t">>]

msg_format == [position |-> 0, must_be |-> <<"a", ".", "m">>]

msg_content_type == [position |-> 0, must_be |-> <<>>]

\* raise template.TemplateSyntaxError(msg): the module imports the class
\* TemplateSyntaxError but binds no name "template", so that looking the name
\* up raises NameError before the message is built and before anything is
\* constructed.
raise_TemplateSyntaxError(msg) == [kind |-> "NameError", name |-> "template"]

\* _get_content_types(tokens): the content type of every token, in order.
RECURSIVE _get_content_types(_)
_get_content_types(tokens) ==
    IF tokens = <<>> THEN [kind |-> "ok", value |-> <<>>]
    ELSE LET token == Head(tokens)
             parts == str_split_sep(token, ".")
         IN IF Len(parts) # 2
            THEN \* app, model = ... raises ValueError, handled at line 97
                 raise_TemplateSyntaxError(msg_format)
            ELSE LET ct == ContentType_get(parts[1], parts[2])
                 IN IF ct.kind = "DoesNotExist"
                    THEN \* handled at line 101
                         raise_TemplateSyntaxError(msg_content_type)
                    ELSE LET rest == _get_content_types(Tail(tokens))
                         IN IF rest.kind # "ok" THEN rest
                            ELSE [kind |-> "ok", value |-> <<ct.value>> \o rest.value]

XtdCommentCountNode(as_varname, content_types) ==
    [tag |-> "count", as_varname |-> as_varname,
     qs |-> for_content_types(content_types)]

\* BaseLastXtdCommentsNode.__init__: the sliced QuerySet, or the assertion
\* error of the slice.
BaseLastXtdCommentsNode(count, content_types) ==
    QuerySet_slice(for_content_types(content_types), count)

RenderLastXtdCommentsNode(count, content_types) ==
    LET qs == BaseLastXtdCommentsNode(count, content_types)
    IN IF qs.kind # "ok" THEN qs
       ELSE [kind |-> "ok",
             value |-> [tag |-> "render", as_varname |-> <<>>, qs |-> qs.value]]

GetLastXtdCommentsNode(count, as_varname, content_types) ==
    LET qs == BaseLastXtdCommentsNode(count, content_types)
    IN IF qs.kind # "ok" THEN qs
       ELSE [kind |-> "ok",
             value |-> [tag |-> "get", as_varname |-> as_varname, qs |-> qs.value]]

get_xtdcomment_count(token_contents) ==
    LET tokens == str_split(token_contents)
    IN IF ~HasIndex(tokens, 1) THEN [kind |-> "IndexError"]
       ELSE IF At(tokens, 1) # kw_as THEN raise_TemplateSyntaxError(msg_count_2nd)
       ELSE IF ~HasIndex(tokens, 2) THEN [kind |-> "IndexError"]
       ELSE IF ~HasIndex(tokens, 3) THEN [kind |-> "IndexError"]
       ELSE IF At(tokens, 3) # kw_for THEN raise_TemplateSyntaxError(msg_count_4th)
       ELSE LET content_types == _get_content_types(SliceFrom(tokens, 4))
            IN IF content_types.kind # "ok" THEN content_types
               ELSE [kind |-> "ok",
                     value |-> XtdCommentCountNode(At(tokens, 2), content_types.value)]

render_last_xtdcomments(token_contents) ==
    LET tokens == str_split(token_contents)
    IN IF ~HasIndex(tokens, 1) THEN [kind |-> "IndexError"]
       ELSE LET count == int(At(tokens, 1))
            IN IF count.kind = "ValueError" THEN raise_TemplateSyntaxError(msg_integer)
               ELSE IF ~HasIndex(tokens, 2) THEN [kind |-> "IndexError"]
               ELSE IF At(tokens, 2) # kw_for
                    THEN raise_TemplateSyntaxError(msg_render_3rd)
               ELSE LET content_types == _get_content_types(SliceFrom(tokens, 3))
                    IN IF content_types.kind # "ok" THEN content_types
                       ELSE RenderLastXtdCommentsNode(count.value, content_types.value)

get_last_xtdcomments(token_contents) ==
    LET tokens == str_split(token_contents)
    IN IF ~HasIndex(tokens, 1) THEN [kind |-> "IndexError"]
       ELSE LET count == int(At(tokens, 1))
            IN IF count.kind = "ValueError" THEN raise_TemplateSyntaxError(msg_integer)
               ELSE IF ~HasIndex(tokens, 2) THEN [kind |-> "IndexError"]
               ELSE IF At(tokens, 2) # kw_as THEN raise_TemplateSyntaxError(msg_get_3rd)
               ELSE IF ~HasIndex(tokens, 3) THEN [kind |-> "IndexError"]
               ELSE IF ~HasIndex(tokens, 4) THEN [kind |-> "IndexError"]
               ELSE IF At(tokens, 4) # kw_for
                    THEN raise_TemplateSyntaxError(msg_get_5th)
               ELSE LET content_types == _get_content_types(SliceFrom(tokens, 5))
                    IN IF content_types.kind # "ok" THEN content_types
                       ELSE GetLastXtdCommentsNode(
                                count.value, At(tokens, 3), content_types.value)

\* The parser looks the tag function up under the first word of the tag
\* (register.tag, lines 173-175) and calls it.
compile_tag(token_contents) ==
    LET command == At(str_split(token_contents), 0)
    IN IF command = tag_count THEN get_xtdcomment_count(token_contents)
       ELSE IF command = tag_render THEN render_last_xtdcomments(token_contents)
       ELSE get_last_xtdcomments(token_contents)

(***************************************************************************)
(* The template context and the template loader.                           *)
(***************************************************************************)
Unset == [unset |-> TRUE]

\* context[key]: the value in the topmost dict that has the key.
RECURSIVE Context_get(_, _)
Context_get(ctx, key) ==
    IF ctx = <<>> THEN Unset
    ELSE IF key \in DOMAIN ctx[Len(ctx)] THEN ctx[Len(ctx)][key]
    ELSE Context_get(SubSeq(ctx, 1, Len(ctx) - 1), key)

\* context[key] = value: set in the topmost dict.
Context_set(ctx, key, value) ==
    LET d == ctx[Len(ctx)]
    IN [ctx EXCEPT ![Len(ctx)] =
            [k \in DOMAIN d \cup {key} |-> IF k = key THEN value ELSE d[k]]]

\* context.update(dictionary): push the dictionary on the stack.
Context_update(ctx, dictionary) == Append(ctx, dictionary)

dir_prefix ==
    <<"d", "j", "a", "n", "g", "o", "_", "c", "o", "m", "m", "e", "n", "t", "s",
      "_", "x", "t", "d", "/">>

file_name == <<"c", "o", "m", "m", "e", "n", "t", ".", "h", "t", "m", "l">>

\* The three paths of lines 66-73 for a comment.
template_search_list(xtd_comment) ==
    << dir_prefix \o xtd_comment.content_type.app_label \o <<"/">>
           \o xtd_comment.content_type.model \o <<"/">> \o file_name,
       dir_prefix \o xtd_comment.content_type.app_label \o <<"/">> \o file_name,
       dir_prefix \o file_name >>

\* loader.select_template: the first path of the list that exists.
RECURSIVE select_template(_, _)
select_template(search_list, existing) ==
    IF search_list = <<>> THEN [kind |-> "TemplateDoesNotExist"]
    ELSE IF Head(search_list) \in existing THEN [kind |-> "ok", value |-> Head(search_list)]
    ELSE select_template(Tail(search_list), existing)

\* loader.render_to_string(search_list, dictionary, context_instance): the
\* template is selected, the dictionary is pushed on the caller's context and
\* the template is rendered in it.  What the loader does with the pushed
\* dictionary afterwards is Django's and differs between its releases: some
\* leave it on the caller's context, others take it off again (popping).
\* A rendered template is one chunk of output: the template and what the name
\* "comment" is bound to where it is rendered.
render_to_string(search_list, dictionary, context_instance, existing, popping) ==
    LET t == select_template(search_list, existing)
        inner == Context_update(context_instance, dictionary)
    IN IF t.kind # "ok" THEN [kind |-> t.kind, context |-> context_instance]
       ELSE [kind |-> "ok",
             value |-> <<[template |-> t.value,
                          comment |-> Context_get(inner, key_comment)]>>,
             context |-> IF popping THEN context_instance ELSE inner]

(***************************************************************************)
(* The render methods.  Each gives what render returns or raises ("kind",  *)
(* "value"), the context and the node after the call.                      *)
(***************************************************************************)
\* Mutant: the QuerySet itself is stored, .count() forgotten.
XtdCommentCountNode_render_qs(self, ctx, S) ==
    [kind |-> "ok", value |-> <<>>,
     context |-> Context_set(ctx, self.as_varname, [qs |-> self.tag]),
     node |-> self]

\* Mutant: len(self.qs) for self.qs.count(), which iterates the QuerySet and
\* so fills its result cache.
XtdCommentCountNode_render_len(self, ctx, S) ==
    LET qs == QuerySet_iter(self.qs, S)
    IN [kind |-> "ok", value |-> <<>>,
        context |-> Context_set(ctx, self.as_varname, [int |-> Len(qs.cache)]),
        node |-> [self EXCEPT !.qs = qs]]

XtdCommentCountNode_render(self, ctx, S) ==
    [kind |-> "ok", value |-> <<>>,
     context |-> Context_set(ctx, self.as_varname, [int |-> QuerySet_count(self.qs, S)]),
     node |-> self]

\* The loop of lines 65-75 over the rows still to render.
RECURSIVE render_rows(_, _, _, _)
render_rows(rows, ctx, existing, popping) ==
    IF rows = <<>> THEN [kind |-> "ok", value |-> <<>>, context |-> ctx]
    ELSE LET one == render_to_string(template_search_list(Head(rows)),
                                     [k \in {key_comment} |-> [row |-> Head(rows)]],
                                     ctx, existing, popping)
         IN IF one.kind # "ok" THEN one
            ELSE LET rest == render_rows(Tail(rows), one.context, existing, popping)
                 IN IF rest.kind # "ok" THEN rest
                    ELSE [kind |-> "ok", value |-> <<one.value>> \o rest.value,
                          context |-> rest.context]

RenderLastXtdCommentsNode_render(self, ctx, S, existing, popping) ==
    LET qs == QuerySet_iter(self.qs, S)
        strlist == render_rows(qs.cache, ctx, existing, popping)
    IN IF strlist.kind # "ok"
       THEN [kind |-> strlist.kind, value |-> <<>>, context |-> strlist.context,
             node |-> [self EXCEPT !.qs = qs]]
       ELSE [kind |-> "ok", value |-> Flatten(strlist.value),
             context |-> strlist.context, node |-> [self EXCEPT !.qs = qs]]

\* The context variable is bound to the node's own QuerySet object.
GetLastXtdCommentsNode_render(self, ctx, S) ==
    [kind |-> "ok", value |-> <<>>,
     context |-> Context_set(ctx, self.as_varname, [qs |-> self.tag]),
     node |-> self]

(***************************************************************************)
(* The inputs.                                                             *)
(***************************************************************************)
tok_v == <<"v">>

tok_w == <<"w">>

tok_story == app_blog \o <<".">> \o ct_story.model

tok_quote == app_blog \o <<".">> \o ct_quote.model

\* app.model of no registered content type
tok_unknown == app_blog \o <<".", "x">>

tok_nodot == app_blog \o ct_story.model

tok_twodots == tok_story \o <<".">> \o ct_quote.model

tok_noapp == <<".">> \o ct_story.model

CountWords == {<<"0">>, <<"1">>, <<"2">>}

TypeLists == {<<tok_story>>, <<tok_quote>>, <<tok_story, tok_quote>>}

\* The well-formed tags of the templates that are compiled and rendered.
CountTags ==
    {<<tag_count, kw_as, v, kw_for>> \o l : v \in {tok_v, tok_w}, l \in TypeLists}

RenderTags == {<<tag_render, n, kw_for>> \o l : n \in CountWords, l \in TypeLists}

GetTags ==
    {<<tag_get, n, kw_as, tok_v, kw_for>> \o l : n \in CountWords, l \in TypeLists}

\* The paths of the comment templates that can exist.
path_story == template_search_list([content_type |-> ct_story, submit_date |-> 1])[1]

path_app == template_search_list([content_type |-> ct_story, submit_date |-> 1])[2]

path_global == template_search_list([content_type |-> ct_story, submit_date |-> 1])[3]

TemplateSets == {{}, {path_global}, {path_app, path_global}, {path_story, path_global}}

\* The variables the enclosing template has set before the tag.
InitialContext ==
    <<[k \in {tok_v, tok_w, key_comment} |-> [str |-> "outer"]]>>

\* The contexts a template is rendered with: the enclosing template's
\* variables in one dict, and a context of two dicts where v is not bound, w
\* is bound in the lower dict and the upper dict binds "comment" to a comment.
ContextInputs ==
    { InitialContext,
      <<[k \in {tok_w} |-> [str |-> "outer"]],
        [k \in {key_comment} |->
            [row |-> [content_type |-> ct_quote, submit_date |-> 1]]]>> }

NoNode == [tag |-> "none", as_varname |-> <<>>, qs |-> for_content_types(<<>>)]

(***************************************************************************)
(* The state machine: a template holding one tag is compiled once and      *)
(* rendered any number of times while comments come and go.                *)
(***************************************************************************)
Init ==
    /\ db = {}
    /\ templates \in TemplateSets
    /\ contents = <<>>
    /\ result = [kind |-> "none"]
    /\ node = NoNode
    /\ given = InitialContext
    /\ context = InitialContext
    /\ out = [kind |-> "none", value |-> <<>>]
    /\ last = "start"
    /\ dirty = FALSE
    /\ rerenders = 0
    /\ restores \in BOOLEAN

Changed ==
    /\ last' = "update"
    /\ dirty' = (result.kind = "ok")
    /\ UNCHANGED <<templates, contents, result, node, given, context, out, rerenders,
                   restores>>

\* A comment is posted.
AddComment ==
    /\ \E c \in Comments :
          /\ \A d \in db : d.submit_date # c.submit_date
          /\ db' = db \cup {c}
    /\ Changed

\* A comment is removed.
DeleteComment ==
    /\ \E c \in db : db' = db \ {c}
    /\ Changed

\* The template is compiled: the tag's parser runs on one of the tags, its
\* words separated by one of the separators.
Compile(tags, separators) ==
    /\ result.kind = "none"
    /\ \E tokens \in tags, sep \in separators :
          LET c == str_join(sep, tokens)
              r == compile_tag(c)
          IN /\ contents' = c
             /\ result' = IF r.kind = "ok" THEN [kind |-> "ok"] ELSE r
             /\ node' = IF r.kind = "ok" THEN r.value ELSE node
    /\ last' = "compile"
    /\ dirty' = FALSE
    /\ UNCHANGED <<db, templates, given, context, out, rerenders, restores>>

\* The words of the tags of the rendered templates are a space apart.
Space == {<<" ">>}

CompileCount == Compile(CountTags, Space)

CompileRender == Compile(RenderTags, Space)

CompileGet == Compile(GetTags, Space)

\* The compiled template is rendered: the node's render method runs on the
\* context ctx it is called with and ends as r.
Rendered(ctx, r) ==
    /\ given' = ctx
    /\ context' = r.context
    /\ node' = r.node
    /\ out' = [kind |-> r.kind, value |-> r.value]
    /\ last' = "render"
    /\ dirty' = FALSE
    /\ rerenders' = IF dirty /\ rerenders < 2 THEN rerenders + 1 ELSE rerenders
    /\ UNCHANGED <<db, templates, contents, result, restores>>

RenderCount ==
    /\ result.kind = "ok"
    /\ node.tag = "count"
    /\ \E ctx \in ContextInputs :
          Rendered(ctx, XtdCommentCountNode_render(node, ctx, db))

RenderLast ==
    /\ result.kind = "ok"
    /\ node.tag = "render"
    /\ \E ctx \in ContextInputs :
          Rendered(ctx, RenderLastXtdCommentsNode_render(node, ctx, db, templates,
                                                         restores))

RenderGet ==
    /\ result.kind = "ok"
    /\ node.tag = "get"
    /\ \E ctx \in ContextInputs :
          Rendered(ctx, GetLastXtdCommentsNode_render(node, ctx, db))

\* The template reads the variable that get_last_xtdcomments has set (a loop
\* over it, its length): the QuerySet it is bound to is iterated.
ReadVariable ==
    /\ node.tag = "get"
    /\ Context_get(context, node.as_varname) = [qs |-> "get"]
    /\ ~node.qs.evaluated
    /\ node' = [node EXCEPT !.qs = QuerySet_iter(node.qs, db)]
    /\ last' = "read"
    /\ UNCHANGED <<db, templates, contents, result, given, context, out, dirty, rerenders,
                   restores>>

Next ==
    \/ AddComment
    \/ DeleteComment
    \/ CompileCount
    \/ CompileRender
    \/ CompileGet
    \/ RenderCount
    \/ RenderLast
    \/ RenderGet
    \/ ReadVariable

Spec == Init /\ [][Next]_vars

(***************************************************************************)
(* The parsers alone, on well-formed tags, on tags cut short and on tags   *)
(* with one word replaced.                                                 *)
(***************************************************************************)
Alphabet ==
    {kw_as, kw_for, tok_v, <<"1">>, <<"-", "1">>, <<"1", "_", "0">>, <<"U+0663">>,
     <<"1", "_">>, tok_quote, tok_unknown, tok_nodot, tok_twodots, tok_noapp}

\* What separates the words of a tag: a space, a tab, a run of whitespace.
Separators == {<<" ">>, <<"\t">>, <<" ", "U+00A0", "\n">>}

Prefixes(tokens) == {SubSeq(tokens, 1, n) : n \in 1 .. Len(tokens)}

Substitutions(tokens) ==
    {[tokens EXCEPT ![i] = t] : i \in 2 .. Len(tokens), t \in Alphabet}

Variants(tags) == UNION {Prefixes(b) \cup Substitutions(b) : b \in tags}

\* The lists of words handed to _get_content_types.
TypeWords == {tok_story, tok_quote, tok_unknown, tok_nodot, tok_twodots, tok_noapp}

TypeWordLists ==
    {<<>>} \cup {<<a>> : a \in TypeWords} \cup {<<a, b>> : a, b \in TypeWords}
        \cup {<<tok_story, a, b>> : a, b \in TypeWords}

CountVariants == Variants(CountTags)

ParseCount == Compile(CountVariants, Separators)

RenderVariants == Variants(RenderTags)

ParseRender == Compile(RenderVariants, Separators)

GetVariants == Variants(GetTags)

ParseGet == Compile(GetVariants, Separators)

\* _get_content_types applied to a list of words.
ApplyGetContentTypes ==
    /\ result.kind = "none"
    /\ \E tokens \in TypeWordLists :
          /\ contents' = str_join(<<" ">>, tokens)
          /\ result' = _get_content_types(tokens)
    /\ last' = "content_types"
    /\ UNCHANGED <<db, templates, node, given, context, out, dirty, rerenders,
                   restores>>

NextParse ==
    \/ ParseCount
    \/ ParseRender
    \/ ParseGet
    \/ ApplyGetContentTypes

SpecParse == Init /\ [][NextParse]_vars

(***************************************************************************)
(* What the claims speak of, stated from the tag's words and the stored    *)
(* comments.                                                               *)
(***************************************************************************)
Words == str_split(contents)

Min(a, b) == IF a < b THEN a ELSE b

\* The word app.model that names a content type.
TokenOf(ct) == ct.app_label \o <<".">> \o ct.model

Dots(word) == Cardinality({i \in DOMAIN word : word[i] = "."})

\* The word is of the form app.model and names a registered content type.
NamesContentType(word) == \E ct \in ContentTypes : TokenOf(ct) = word

\* The stored comments whose content type is one of the words.
Matching(typeWords) == {c \in db : TokenOf(c.content_type) \in Range(typeWords)}

\* rows are the n most recent members of M (all of M when it has fewer),
\* each once.
IsLastN(rows, M, n) ==
    /\ Range(rows) \subseteq M
    /\ Len(rows) = Min(n, Cardinality(M))
    /\ Cardinality(Range(rows)) = Len(rows)
    /\ \A c \in M \ Range(rows) : \A r \in Range(rows) : c.submit_date < r.submit_date

\* The rows a template sees in the value of a context variable.
ValueRows(v) ==
    IF "qs" \in DOMAIN v
    THEN IF node.qs.evaluated THEN node.qs.cache ELSE QuerySet_fetch(node.qs, db)
    ELSE <<>>

\* The number of words a tag needs, and whether a word at a keyword or count
\* position is wrong.
MinWords == IF Words[1] = tag_count THEN 5 ELSE IF Words[1] = tag_render THEN 4 ELSE 6

IsInteger(word) == int(word).kind = "ok"

WrongWord ==
    IF Words[1] = tag_count THEN Words[2] # kw_as \/ Words[4] # kw_for
    ELSE IF Words[1] = tag_render THEN ~IsInteger(Words[2]) \/ Words[3] # kw_for
    ELSE ~IsInteger(Words[2]) \/ Words[3] # kw_as \/ Words[5] # kw_for

(***************************************************************************)
(* The claims.                                                             *)
(***************************************************************************)
\* C1: parsing a tag that has enough words but a wrong word at a keyword
\* position, or a count that is no integer, ends in TemplateSyntaxError.
C1_WrongWordIsSyntaxError ==
    (last = "compile" /\ Len(Words) >= MinWords /\ WrongWord)
        => result.kind = "TemplateSyntaxError"

\* C2: _get_content_types ends in TemplateSyntaxError when a word is not of
\* the form app.model or names no registered content type, and otherwise
\* returns the content types the words name, in the order of the words.
C2_ContentTypesOrSyntaxError ==
    last = "content_types" =>
        IF \E i \in DOMAIN Words : Dots(Words[i]) # 1 \/ ~NamesContentType(Words[i])
        THEN result.kind = "TemplateSyntaxError"
        ELSE /\ result.kind = "ok"
             /\ Len(result.value) = Len(Words)
             /\ \A i \in DOMAIN Words : TokenOf(result.value[i]) = Words[i]

\* C3: after a render of the node of "get_xtdcomment_count as V for T1..Tk"
\* the variable V holds the number of stored comments of the content types
\* T1..Tk, and the render has returned the empty string.
C3_CountOfListedTypes ==
    (last = "render" /\ Words[1] = tag_count) =>
        /\ Context_get(context, Words[3])
               = [int |-> Cardinality(Matching(SubSeq(Words, 5, Len(Words))))]
        /\ out = [kind |-> "ok", value |-> <<>>]

C3_Witness ==
    /\ last = "render"
    /\ Words[1] = tag_count
    /\ Context_get(context, Words[3]) = [int |-> 2]
    /\ Cardinality(db) = 3

\* C4: after a render of the node of "get_last_xtdcomments N as V for
\* T1..Tk", N >= 0, the variable V holds the N most recent stored comments of
\* the content types T1..Tk (all of them when fewer exist).
C4_LastNOfListedTypes ==
    (last = "render" /\ Words[1] = tag_get) =>
        IsLastN(ValueRows(Context_get(context, Words[4])),
                Matching(SubSeq(Words, 6, Len(Words))),
                int(Words[2]).value)

\* The chunk the claim expects for a comment: the first of the three paths
\* that exists, with the comment bound to "comment".
ExpectedChunk(c) ==
    LET app == dir_prefix \o c.content_type.app_label \o <<"/">>
        specific == app \o c.content_type.model \o <<"/">> \o file_name
        general == app \o file_name
    IN [template |-> IF specific \in templates THEN specific
                     ELSE IF general \in templates THEN general
                     ELSE dir_prefix \o file_name,
        comment |-> [row |-> c]]

\* C5: a render of the node of "render_last_xtdcomments N for T1..Tk"
\* returns one chunk for each of the last N stored comments of the content
\* types, the most recent first and nothing else, each rendered with the
\* first existing template of the search order.
C5_OneChunkPerLastComment ==
    (last = "render" /\ Words[1] = tag_render /\ out.kind = "ok") =>
        LET rows == [i \in DOMAIN out.value |-> out.value[i].comment.row]
        IN /\ IsLastN(rows, Matching(SubSeq(Words, 4, Len(Words))), int(Words[2]).value)
           /\ \A i, j \in DOMAIN rows :
                 i < j => rows[i].submit_date > rows[j].submit_date
           /\ \A i \in DOMAIN rows : out.value[i] = ExpectedChunk(rows[i])

\* C6: parsing a tag with fewer words than its syntax requires ends in
\* TemplateSyntaxError.
C6_TooFewWordsIsSyntaxError ==
    (last = "compile" /\ Len(Words) < MinWords) => result.kind = "TemplateSyntaxError"

\* C7: when the second word of get_xtdcomment_count is not "as", the error
\* is a syntax error whose message says that the second argument must be
\* "as".
C7_MessageNamesExpectedKeyword ==
    (last = "compile" /\ Words[1] = tag_count /\ Len(Words) >= MinWords
         /\ Words[2] # kw_as) =>
        /\ result.kind = "TemplateSyntaxError"
        /\ "message" \in DOMAIN result
        /\ result.message = [position |-> 2, must_be |-> kw_as]

\* C8: every render of a render_last_xtdcomments or get_last_xtdcomments
\* node yields the rows its query finds among the comments stored at the
\* time of that render.
C8_RenderYieldsCurrentRows ==
    (last = "render" /\ (node.tag = "render" \/ node.tag = "get")) =>
        LET now == QuerySet_fetch([node.qs EXCEPT !.evaluated = FALSE], db)
        IN IF node.tag = "get"
           THEN ValueRows(Context_get(context, node.as_varname)) = now
           ELSE out.kind = "ok" =>
                    [i \in DOMAIN out.value |-> out.value[i].comment.row] = now

\* C9: every render of a get_xtdcomment_count node, whatever was added or
\* deleted since the tag was parsed or last rendered, sets the variable to
\* the number of matching comments stored when that render runs.
C9_CountAtRenderTime ==
    [][RenderCount =>
          Context_get(context', node.as_varname)
              = [int |-> Cardinality({c \in db :
                                        c.content_type \in Range(node.qs.content_types)})]
      ]_vars

C9_Witness ==
    /\ last = "render"
    /\ node.tag = "count"
    /\ rerenders = 2
    /\ Context_get(context, node.as_varname) = [int |-> 1]

\* The names bound anywhere in a context.
Keys(ctx) == UNION {DOMAIN ctx[i] : i \in DOMAIN ctx}

\* C10: a render of a count or get-last node changes no variable of the
\* context it is given but the one of its "as" clause; a render of a
\* render-last node changes no variable of the context it is given: it binds
\* no new name and every name keeps its value; and no render changes the
\* stored comments.
C10_RenderFrame ==
    [][/\ (RenderCount \/ RenderGet) =>
             /\ db' = db
             /\ Keys(context') = Keys(given') \cup {node.as_varname}
             /\ \A k \in Keys(given') \ {node.as_varname} :
                   Context_get(context', k) = Context_get(given', k)
       /\ RenderLast =>
             /\ db' = db
             /\ Keys(context') = Keys(given')
             /\ \A k \in Keys(given') :
                   Context_get(context', k) = Context_get(given', k)
      ]_vars

====
